---- MODULE Spec2Model ----
(***************************************************************************)
(* Peer and connection management of tchannel (peer.go, appended to        *)
(* examples/keyvalue/client.go): a tree of PeerLists indexing shared       *)
(* Peers, each Peer pooling inbound and outbound Connections.              *)
(*                                                                         *)
(* Every method is split at its lock operations and at its calls into      *)
(* other components, so that goroutines interleave exactly where the Go    *)
(* scheduler lets them.  Lists and connections are numbered in creation    *)
(* order, 0 standing for nil; a Peer is named by the list that made it.    *)
(***************************************************************************)
EXTENDS Naturals, Sequences, FiniteSets

\* ---------------------------------------------------------------- bounds
NumThreads == 2
NumAddrs == 2
MaxLists == 3
MaxConns == 2

Threads == 1..NumThreads
Addrs == 1..NumAddrs

\* ------------------------------------------------------- connection states
\* The lifecycle of a Connection, which moves forward only.
connectionActive == "active"
connectionStartClose == "startClose"
connectionClosed == "closed"
ConnStates == {connectionActive, connectionStartClose, connectionClosed}

ErrNone == "nil"
ErrNoPeers == "no peers available"
ErrInvalidConnectionState == "connection is in an invalid state"
ErrConnect == "connect failed"
ErrBeginCall == "begin call failed"

VARIABLES
    parent,           \* parent[l]: PeerList.parent, 0 for nil
    derived,          \* derived[l]: how list l was made, and from which list
    peersByHostPort,  \* peersByHostPort[l][a]: PeerList.peersByHostPort, NoPeer when absent
    peers,            \* peers[l]: PeerList.peers
    lmut,             \* lmut[l]: PeerList.mut
    inboundConnections,   \* inboundConnections[p]: Peer.inboundConnections
    outboundConnections,  \* outboundConnections[p]: Peer.outboundConnections
    pmut,             \* pmut[p]: Peer.mut
    connState,        \* connState[c]: the lifecycle state of connection c
    closeCalled,      \* closeCalled[c]: Close() has been invoked on connection c
    thr               \* thr[t]: the call goroutine t is running and its locals

vars == <<parent, derived, peersByHostPort, peers, lmut, inboundConnections,
          outboundConnections, pmut, connState, closeCalled, thr>>

listVars == <<parent, derived, peersByHostPort, peers, lmut>>
peerVars == <<inboundConnections, outboundConnections, pmut>>
connVars == <<connState, closeCalled>>

Lists == 1..Len(parent)
Peers == DOMAIN pmut
Conns == 1..Len(connState)

Range(s) == {s[i] : i \in 1..Len(s)}
Last(s) == s[Len(s)]
ButLast(s) == SubSeq(s, 1, Len(s) - 1)

\* ------------------------------------------------------------ sync.RWMutex
\* w: the goroutine holding the write lock (0: none); r: the goroutines
\* holding a read lock; ww: the goroutines blocked in Lock().  As in Go, a
\* pending Lock() keeps new readers out.
NewMutex == [w |-> 0, r |-> {}, ww |-> {}]
CanRLock(m) == m.w = 0 /\ m.ww = {}
RLock(m, t) == [m EXCEPT !.r = @ \cup {t}]
RUnlock(m, t) == [m EXCEPT !.r = @ \ {t}]
LockPending(m, t) == [m EXCEPT !.ww = @ \cup {t}]
CanLock(m) == m.w = 0 /\ m.r = {}
Lock(m, t) == [m EXCEPT !.w = t, !.ww = @ \ {t}]
Unlock(m, t) == [m EXCEPT !.w = 0]

\* ------------------------------------------------------------------ Peer
\* A Peer object is named by the list that made it, its hostPort and the
\* number of Peers that list had made for that hostPort before: two calls of
\* newPeer never give the same object.
NoPeer == [list |-> 0, hostPort |-> 0, n |-> 0]

newPeer(l, a) ==
    [list |-> l, hostPort |-> a,
     n |-> 1 + Cardinality({q \in Peers : q.list = l /\ q.hostPort = a})]

HostPort(p) == p.hostPort

\* Peer.runWithConnections: the inbound connections, then the outbound ones.
runWithConnections(p) == inboundConnections[p] \o outboundConnections[p]

\* Connection.IsActive
IsActive(c) == connState[c] = connectionActive

\* Only an active connection is accepted.
ValidForAddActiveOnly(s) == s = connectionActive

\* The states AddInboundConnection and AddOutboundConnection accept.
ValidForAdd(s) == s \in {connectionActive, connectionStartClose}

\* ------------------------------------------------------------- goroutines
NoCopy == [a \in Addrs |-> NoPeer]
NoResult == [conn |-> 0, err |-> ErrNone]
NoCall == "nil"
NoPre == [map |-> << >>, seq |-> << >>, made |-> {}]

Idle ==
    [op |-> "idle", pc |-> "idle", l |-> 0, hp |-> 0, p |-> NoPeer, c |-> 0,
     stack |-> << >>, i |-> 0, k |-> 0, active |-> << >>, seen |-> "",
     nconn |-> 0, nadd |-> 0, cres |-> NoResult, snap |-> {}, snapPeers |-> {},
     rpeer |-> NoPeer, rconn |-> 0, rerr |-> ErrNone, rcopy |-> NoCopy,
     rcall |-> NoCall, pre |-> NoPre, nlock |-> 0]

InAdd(t) == thr[t].stack # << >>
Top(t) == Last(thr[t].stack)

\* ------------------------------------------------------------ newPeerList
newPeerList == [a \in Addrs |-> NoPeer]

\* A sibling that is a copy of its creator's struct shares its map and slice.
IndexOfCreator(l) == IF derived[l].kind = "sibling" THEN derived[l].from ELSE l

\* The map and the slice newPeerList made for list l: its own.
IndexOf(l) == l

\* Every list takes itself for the root and makes its own peers.
isRootAlways(l) == TRUE

isRoot(l) == parent[l] = 0

newSiblingParent(l) == parent[l]

newChildParent(l) == l

Init ==
    /\ parent = <<0>>
    /\ derived = <<[kind |-> "root", from |-> 0]>>
    /\ peersByHostPort = <<newPeerList>>
    /\ peers = << << >> >>
    /\ lmut = <<NewMutex>>
    /\ inboundConnections = << >>
    /\ outboundConnections = << >>
    /\ pmut = << >>
    /\ connState = << >>
    /\ closeCalled = << >>
    /\ thr = [t \in Threads |-> Idle]

\* The root list once Add has been called on it, and has returned, for
\* each address of as in turn: l.peers holds a Peer for each address in the
\* order of its first Add, an Add of an address added before returning the
\* Peer there is (lines 207-209).
RECURSIVE AddedPeers(_)
AddedPeers(as) ==
    IF as = << >> THEN << >>
    ELSE LET before == AddedPeers(ButLast(as))
             p == [list |-> 1, hostPort |-> Last(as), n |-> 1]
         IN IF p \in Range(before) THEN before ELSE Append(before, p)

InitAdded(as) ==
    LET ps == AddedPeers(as) IN
    /\ parent = <<0>>
    /\ derived = <<[kind |-> "root", from |-> 0]>>
    /\ peersByHostPort = <<[a \in Addrs |->
                              IF \E i \in 1..Len(as) : as[i] = a
                              THEN [list |-> 1, hostPort |-> a, n |-> 1]
                              ELSE NoPeer]>>
    /\ peers = <<ps>>
    /\ lmut = <<NewMutex>>
    /\ inboundConnections = [p \in Range(ps) |-> << >>]
    /\ outboundConnections = [p \in Range(ps) |-> << >>]
    /\ pmut = [p \in Range(ps) |-> NewMutex]
    /\ connState = << >>
    /\ closeCalled = << >>
    /\ thr = [t \in Threads |-> Idle]

\* PeerList.newSibling while fewer than max lists exist: a fresh list whose
\* parent is the receiver's parent.
newSiblingWithin(l, max) ==
    /\ Len(parent) < max
    /\ parent' = Append(parent, newSiblingParent(l))
    /\ derived' = Append(derived, [kind |-> "sibling", from |-> l])
    /\ peersByHostPort' = Append(peersByHostPort, newPeerList)
    /\ peers' = Append(peers, << >>)
    /\ lmut' = Append(lmut, NewMutex)
    /\ UNCHANGED <<peerVars, connVars, thr>>

\* PeerList.newSibling, called while fewer than MaxLists lists exist.
newSibling(l) == newSiblingWithin(l, MaxLists)

\* PeerList.newChild while fewer than max lists exist: a fresh list whose
\* parent is the receiver.
newChildWithin(l, max) ==
    /\ Len(parent) < max
    /\ parent' = Append(parent, newChildParent(l))
    /\ derived' = Append(derived, [kind |-> "child", from |-> l])
    /\ peersByHostPort' = Append(peersByHostPort, newPeerList)
    /\ peers' = Append(peers, << >>)
    /\ lmut' = Append(lmut, NewMutex)
    /\ UNCHANGED <<peerVars, connVars, thr>>

\* PeerList.newChild, called while fewer than MaxLists lists exist.
newChild(l) == newChildWithin(l, MaxLists)

\* A finished call's results are dropped and the goroutine is free again.
Return(t) ==
    /\ thr[t].pc = "done"
    /\ thr' = [thr EXCEPT ![t] = Idle]
    /\ UNCHANGED <<listVars, peerVars, connVars>>

\* ------------------------------------------------------------ PeerList.Add
CallAdd(t, l, a) ==
    /\ thr[t].op = "idle"
    /\ thr' = [thr EXCEPT ![t] = [Idle EXCEPT !.op = "Add", !.pc = "add_rlock",
                                              !.l = l, !.hp = a, !.stack = <<l>>]]
    /\ UNCHANGED <<listVars, peerVars, connVars>>

\* The value the innermost Add frame returns goes to its caller: the frame
\* below it resumes at line 228, or the API call is finished.
AddReturns(t, p) ==
    IF Len(thr[t].stack) = 1
    THEN [thr[t] EXCEPT !.stack = << >>, !.pc = "done", !.rpeer = p]
    ELSE [thr[t] EXCEPT !.stack = ButLast(@), !.pc = "add_index", !.p = p]

\* The peer found is returned only after line 229 has appended it again.
Add_Lookup_HitAppends(t) ==
    /\ InAdd(t) /\ thr[t].pc = "add_rlock"
    /\ CanRLock(lmut[Top(t)])
    /\ peersByHostPort[IndexOf(Top(t))][thr[t].hp] # NoPeer
    /\ peers' = [peers EXCEPT ![IndexOf(Top(t))] =
                    Append(@, peersByHostPort[IndexOf(Top(t))][thr[t].hp])]
    /\ thr' = [thr EXCEPT ![t] = AddReturns(t, peersByHostPort[IndexOf(Top(t))][thr[t].hp])]
    /\ UNCHANGED <<parent, derived, peersByHostPort, lmut, peerVars, connVars>>

\* lines 205-210: RLock, the optimistic lookup finds the peer, RUnlock, return.
Add_Lookup_Hit(t) ==
    /\ InAdd(t) /\ thr[t].pc = "add_rlock"
    /\ CanRLock(lmut[Top(t)])
    /\ peersByHostPort[IndexOf(Top(t))][thr[t].hp] # NoPeer
    /\ thr' = [thr EXCEPT ![t] = AddReturns(t, peersByHostPort[IndexOf(Top(t))][thr[t].hp])]
    /\ UNCHANGED <<listVars, peerVars, connVars>>

\* lines 205-212: RLock, the lookup misses, RUnlock.
Add_Lookup_Miss(t) ==
    /\ InAdd(t) /\ thr[t].pc = "add_rlock"
    /\ CanRLock(lmut[Top(t)])
    /\ peersByHostPort[IndexOf(Top(t))][thr[t].hp] = NoPeer
    /\ thr' = [thr EXCEPT ![t].pc = "add_lock"]
    /\ UNCHANGED <<listVars, peerVars, connVars>>

\* line 213: l.mut.Lock() is entered; from here on new readers of l wait.
Add_Lock(t) ==
    /\ InAdd(t) /\ thr[t].pc = "add_lock"
    /\ lmut' = [lmut EXCEPT ![Top(t)] = LockPending(@, t)]
    /\ thr' = [thr EXCEPT ![t].pc = "add_locked", ![t].nlock = @ + 1]
    /\ UNCHANGED <<parent, derived, peersByHostPort, peers, peerVars, connVars>>

\* The index is not checked again under the write lock: an address that was
\* added in between is added a second time.
Add_Recheck_HitFallsThrough(t) ==
    /\ InAdd(t) /\ thr[t].pc = "add_locked"
    /\ CanLock(lmut[Top(t)])
    /\ peersByHostPort[IndexOf(Top(t))][thr[t].hp] # NoPeer
    /\ lmut' = [lmut EXCEPT ![Top(t)] = Lock(@, t)]
    /\ IF parent[Top(t)] = 0
       THEN LET p == [list |-> Top(t), hostPort |-> thr[t].hp,
                      n |-> 1 + Cardinality({q \in Peers : q.list = Top(t)
                                                /\ q.hostPort = thr[t].hp})]
                ext(f, v) == [q \in Peers \cup {p} |-> IF q = p THEN v ELSE f[q]]
            IN /\ inboundConnections' = ext(inboundConnections, << >>)
               /\ outboundConnections' = ext(outboundConnections, << >>)
               /\ pmut' = ext(pmut, NewMutex)
               /\ thr' = [thr EXCEPT ![t].pc = "add_index", ![t].p = p]
       ELSE /\ thr' = [thr EXCEPT ![t].pc = "add_rlock",
                                  ![t].stack = Append(@, parent[Top(t)])]
            /\ UNCHANGED peerVars
    /\ UNCHANGED <<parent, derived, peersByHostPort, peers, connVars>>

\* lines 213-218: the write lock is granted and the index is checked again;
\* a hit returns, and the deferred Unlock runs.
Add_Recheck_Hit(t) ==
    /\ InAdd(t) /\ thr[t].pc = "add_locked"
    /\ CanLock(lmut[Top(t)])
    /\ peersByHostPort[IndexOf(Top(t))][thr[t].hp] # NoPeer
    /\ lmut' = [lmut EXCEPT ![Top(t)] = Unlock(Lock(@, t), t)]
    /\ thr' = [thr EXCEPT ![t] = AddReturns(t, peersByHostPort[IndexOf(Top(t))][thr[t].hp])]
    /\ UNCHANGED <<parent, derived, peersByHostPort, peers, peerVars, connVars>>

\* lines 213-224: a miss on the root list makes the Peer (newPeer).
Add_Recheck_NewPeer(t) ==
    /\ InAdd(t) /\ thr[t].pc = "add_locked"
    /\ CanLock(lmut[Top(t)])
    /\ peersByHostPort[IndexOf(Top(t))][thr[t].hp] = NoPeer
    /\ isRoot(Top(t))
    /\ lmut' = [lmut EXCEPT ![Top(t)] = Lock(@, t)]
    /\ LET p == newPeer(Top(t), thr[t].hp)
           ext(f, v) == [q \in Peers \cup {p} |-> IF q = p THEN v ELSE f[q]]
       IN /\ inboundConnections' = ext(inboundConnections, << >>)
          /\ outboundConnections' = ext(outboundConnections, << >>)
          /\ pmut' = ext(pmut, NewMutex)
          /\ thr' = [thr EXCEPT ![t].pc = "add_index", ![t].p = p]
    /\ UNCHANGED <<parent, derived, peersByHostPort, peers, connVars>>

\* The write lock of l is released before l.parent.Add is called.
Add_Recheck_DelegateUnlocked(t) ==
    /\ InAdd(t) /\ thr[t].pc = "add_locked"
    /\ CanLock(lmut[Top(t)])
    /\ peersByHostPort[IndexOf(Top(t))][thr[t].hp] = NoPeer
    /\ ~isRoot(Top(t))
    /\ lmut' = [lmut EXCEPT ![Top(t)] = Unlock(Lock(@, t), t)]
    /\ thr' = [thr EXCEPT ![t].pc = "add_rlock",
                          ![t].stack = Append(@, parent[Top(t)])]
    /\ UNCHANGED <<parent, derived, peersByHostPort, peers, peerVars, connVars>>

\* lines 213-226: a miss on a non-root list calls l.parent.Add, the write
\* lock of l still held.
Add_Recheck_Delegate(t) ==
    /\ InAdd(t) /\ thr[t].pc = "add_locked"
    /\ CanLock(lmut[Top(t)])
    /\ peersByHostPort[IndexOf(Top(t))][thr[t].hp] = NoPeer
    /\ ~isRoot(Top(t))
    /\ lmut' = [lmut EXCEPT ![Top(t)] = Lock(@, t)]
    /\ thr' = [thr EXCEPT ![t].pc = "add_rlock",
                          ![t].stack = Append(@, parent[Top(t)])]
    /\ UNCHANGED <<parent, derived, peersByHostPort, peers, peerVars, connVars>>

\* line 228: l.peersByHostPort[hostPort] = p
Add_Index(t) ==
    /\ InAdd(t) /\ thr[t].pc = "add_index"
    /\ peersByHostPort' = [peersByHostPort EXCEPT ![IndexOf(Top(t))][thr[t].hp] = thr[t].p]
    /\ thr' = [thr EXCEPT ![t].pc = "add_append"]
    /\ UNCHANGED <<parent, derived, peers, lmut, peerVars, connVars>>

\* The write lock is kept when Add returns.
Add_AppendNoUnlock(t) ==
    /\ InAdd(t) /\ thr[t].pc = "add_append"
    /\ peers' = [peers EXCEPT ![IndexOf(Top(t))] = Append(@, thr[t].p)]
    /\ thr' = [thr EXCEPT ![t] = AddReturns(t, thr[t].p)]
    /\ UNCHANGED <<parent, derived, peersByHostPort, lmut, peerVars, connVars>>

\* lines 229-230: l.peers = append(l.peers, p); return p, and the deferred
\* Unlock runs.
Add_Append(t) ==
    /\ InAdd(t) /\ thr[t].pc = "add_append"
    /\ peers' = [peers EXCEPT ![IndexOf(Top(t))] = Append(@, thr[t].p)]
    /\ lmut' = [lmut EXCEPT ![Top(t)] = Unlock(@, t)]
    /\ thr' = [thr EXCEPT ![t] = AddReturns(t, thr[t].p)]
    /\ UNCHANGED <<parent, derived, peersByHostPort, peerVars, connVars>>

AddSteps(t) ==
    \/ Add_Lookup_Hit(t)
    \/ Add_Lookup_Miss(t)
    \/ Add_Lock(t)
    \/ Add_Recheck_Hit(t)
    \/ Add_Recheck_NewPeer(t)
    \/ Add_Index(t)
    \/ Add_Append(t)

\* ------------------------------------------------------- PeerList.GetOrAdd
CallGetOrAdd(t, l, a) ==
    /\ thr[t].op = "idle"
    /\ thr' = [thr EXCEPT ![t] = [Idle EXCEPT !.op = "GetOrAdd", !.pc = "goa_rlock",
                                              !.l = l, !.hp = a]]
    /\ UNCHANGED <<listVars, peerVars, connVars>>

\* lines 250-254: RLock, the lookup finds the peer, RUnlock, return.
GetOrAdd_Hit(t) ==
    /\ thr[t].op = "GetOrAdd" /\ thr[t].pc = "goa_rlock"
    /\ CanRLock(lmut[thr[t].l])
    /\ peersByHostPort[IndexOf(thr[t].l)][thr[t].hp] # NoPeer
    /\ thr' = [thr EXCEPT ![t].pc = "done",
                          ![t].rpeer = peersByHostPort[IndexOf(thr[t].l)][thr[t].hp]]
    /\ UNCHANGED <<listVars, peerVars, connVars>>

\* On a miss the Add of the parent is called in place of the list's own.
GetOrAdd_MissToParent(t) ==
    /\ thr[t].op = "GetOrAdd" /\ thr[t].pc = "goa_rlock"
    /\ CanRLock(lmut[thr[t].l])
    /\ peersByHostPort[IndexOf(thr[t].l)][thr[t].hp] = NoPeer
    /\ thr' = [thr EXCEPT ![t].pc = "add_rlock",
                          ![t].stack = <<IF isRoot(thr[t].l) THEN thr[t].l
                                         ELSE parent[thr[t].l]>>]
    /\ UNCHANGED <<listVars, peerVars, connVars>>

\* lines 250-257: RLock, the lookup misses, RUnlock, and l.Add is called.
GetOrAdd_Miss(t) ==
    /\ thr[t].op = "GetOrAdd" /\ thr[t].pc = "goa_rlock"
    /\ CanRLock(lmut[thr[t].l])
    /\ peersByHostPort[IndexOf(thr[t].l)][thr[t].hp] = NoPeer
    /\ thr' = [thr EXCEPT ![t].pc = "add_rlock", ![t].stack = <<thr[t].l>>]
    /\ UNCHANGED <<listVars, peerVars, connVars>>

\* ------------------------------------------------------------ PeerList.Get
CallGet(t, l) ==
    /\ thr[t].op = "idle"
    /\ thr' = [thr EXCEPT ![t] = [Idle EXCEPT !.op = "Get", !.pc = "get_rlock", !.l = l]]
    /\ UNCHANGED <<listVars, peerVars, connVars>>

\* peerSelector.choosePeer: some element of a non-empty sequence of peers.
choosePeer(ps) == Range(ps)

\* A list of one peer is taken for empty.
Get_NoPeersWhenShort(t) ==
    /\ thr[t].op = "Get" /\ thr[t].pc = "get_rlock"
    /\ CanRLock(lmut[thr[t].l])
    /\ Len(peers[IndexOf(thr[t].l)]) <= 1
    /\ thr' = [thr EXCEPT ![t].pc = "done", ![t].rpeer = NoPeer, ![t].rerr = ErrNoPeers]
    /\ UNCHANGED <<listVars, peerVars, connVars>>

\* lines 235-240: RLock, the list is empty, RUnlock, return nil, ErrNoPeers.
Get_NoPeers(t) ==
    /\ thr[t].op = "Get" /\ thr[t].pc = "get_rlock"
    /\ CanRLock(lmut[thr[t].l])
    /\ Len(peers[IndexOf(thr[t].l)]) = 0
    /\ thr' = [thr EXCEPT ![t].pc = "done", ![t].rpeer = NoPeer, ![t].rerr = ErrNoPeers]
    /\ UNCHANGED <<listVars, peerVars, connVars>>

\* lines 235-245: RLock, the selector chooses among l.peers, RUnlock, return.
Get_Choose(t) ==
    /\ thr[t].op = "Get" /\ thr[t].pc = "get_rlock"
    /\ CanRLock(lmut[thr[t].l])
    /\ Len(peers[IndexOf(thr[t].l)]) # 0
    /\ \E p \in choosePeer(peers[IndexOf(thr[t].l)]) :
          thr' = [thr EXCEPT ![t].pc = "done", ![t].rpeer = p, ![t].rerr = ErrNone]
    /\ UNCHANGED <<listVars, peerVars, connVars>>

\* ----------------------------------------------------------- PeerList.Copy
CallCopy(t, l) ==
    /\ thr[t].op = "idle"
    /\ thr' = [thr EXCEPT ![t] = [Idle EXCEPT !.op = "Copy", !.pc = "copy_rlock", !.l = l]]
    /\ UNCHANGED <<listVars, peerVars, connVars>>

\* lines 262-269: RLock, every entry of l.peersByHostPort is copied, RUnlock.
Copy_Snapshot(t) ==
    /\ thr[t].op = "Copy" /\ thr[t].pc = "copy_rlock"
    /\ CanRLock(lmut[thr[t].l])
    /\ thr' = [thr EXCEPT ![t].pc = "done",
                          ![t].rcopy = [a \in Addrs |-> peersByHostPort[IndexOf(thr[t].l)][a]]]
    /\ UNCHANGED <<listVars, peerVars, connVars>>

\* ------------------------------------------------------------- Peer.Close
\* The connections in the pools of the peers a list indexes.
PoolOf(p) == Range(inboundConnections[p]) \cup Range(outboundConnections[p])
PooledBy(l) == UNION {PoolOf(p) : p \in Range(peers[IndexOf(l)])}

CallPeerClose(t, p) ==
    /\ thr[t].op = "idle"
    /\ thr' = [thr EXCEPT ![t] = [Idle EXCEPT !.op = "PeerClose", !.pc = "pc_rlock",
                                              !.p = p, !.snap = PoolOf(p)]]
    /\ UNCHANGED <<listVars, peerVars, connVars>>

\* line 420: p.mut.RLock()
PeerClose_RLock(t) ==
    /\ thr[t].pc = "pc_rlock"
    /\ CanRLock(pmut[thr[t].p])
    /\ pmut' = [pmut EXCEPT ![thr[t].p] = RLock(@, t)]
    /\ thr' = [thr EXCEPT ![t].pc = "pc_iter", ![t].i = 1]
    /\ UNCHANGED <<listVars, inboundConnections, outboundConnections, connVars>>

\* Connection.Close: the call is recorded, and an active connection starts
\* closing.
ConnClose(c) ==
    /\ closeCalled' = [closeCalled EXCEPT ![c] = TRUE]
    /\ connState' = [connState EXCEPT ![c] =
                        IF @ = connectionActive THEN connectionStartClose ELSE @]

\* The outbound connections are left out.
CloseOrderInboundOnly(p) == inboundConnections[p]

\* The connections Peer.Close closes, in order.
CloseOrder(p) == runWithConnections(p)

\* lines 423-425: c.Close() on the next connection of runWithConnections.
PeerClose_Conn(t) ==
    /\ thr[t].pc = "pc_iter"
    /\ thr[t].i <= Len(CloseOrder(thr[t].p))
    /\ ConnClose(CloseOrder(thr[t].p)[thr[t].i])
    /\ thr' = [thr EXCEPT ![t].i = @ + 1]
    /\ UNCHANGED <<listVars, peerVars>>

\* Peer.Close has returned: the API call is finished, or PeerList.Close
\* goes on to the next peer of l.peers.
PeerCloseReturns(t) ==
    IF thr[t].op = "PeerClose"
    THEN [thr[t] EXCEPT !.pc = "done"]
    ELSE IF thr[t].k < Len(peers[IndexOf(thr[t].l)])
         THEN [thr[t] EXCEPT !.pc = "pc_rlock", !.k = @ + 1,
                             !.p = peers[IndexOf(thr[t].l)][thr[t].k + 1]]
         ELSE [thr[t] EXCEPT !.pc = "lc_runlock"]

\* The lists of the peer are emptied once their connections are closed.
PeerClose_RUnlockClearing(t) ==
    /\ thr[t].pc = "pc_iter"
    /\ thr[t].i > Len(CloseOrder(thr[t].p))
    /\ pmut' = [pmut EXCEPT ![thr[t].p] = RUnlock(@, t)]
    /\ inboundConnections' = [inboundConnections EXCEPT ![thr[t].p] = << >>]
    /\ outboundConnections' = [outboundConnections EXCEPT ![thr[t].p] = << >>]
    /\ thr' = [thr EXCEPT ![t] = PeerCloseReturns(t)]
    /\ UNCHANGED <<listVars, connVars>>

\* line 421: the loop is over and the deferred p.mut.RUnlock() runs.
PeerClose_RUnlock(t) ==
    /\ thr[t].pc = "pc_iter"
    /\ thr[t].i > Len(CloseOrder(thr[t].p))
    /\ pmut' = [pmut EXCEPT ![thr[t].p] = RUnlock(@, t)]
    /\ thr' = [thr EXCEPT ![t] = PeerCloseReturns(t)]
    /\ UNCHANGED <<listVars, inboundConnections, outboundConnections, connVars>>

PeerCloseSteps(t) ==
    \/ PeerClose_RLock(t)
    \/ PeerClose_Conn(t)
    \/ PeerClose_RUnlock(t)

\* ---------------------------------------------------------- PeerList.Close
CallListClose(t, l) ==
    /\ thr[t].op = "idle"
    /\ thr' = [thr EXCEPT ![t] = [Idle EXCEPT !.op = "ListClose", !.pc = "lc_rlock",
                                              !.l = l, !.snap = PooledBy(l),
                                              !.snapPeers = Range(peers[IndexOf(l)])]]
    /\ UNCHANGED <<listVars, peerVars, connVars>>

\* lines 274-278: l.mut.RLock(), and the loop over l.peers starts: p.Close()
\* is called on the first peer with the read lock of l held.
ListClose_RLock(t) ==
    /\ thr[t].op = "ListClose" /\ thr[t].pc = "lc_rlock"
    /\ CanRLock(lmut[thr[t].l])
    /\ lmut' = [lmut EXCEPT ![thr[t].l] = RLock(@, t)]
    /\ thr' = [thr EXCEPT ![t] =
                 IF Len(peers[IndexOf(thr[t].l)]) = 0
                 THEN [@ EXCEPT !.pc = "lc_runlock"]
                 ELSE [@ EXCEPT !.pc = "pc_rlock", !.k = 1, !.p = peers[IndexOf(thr[t].l)][1]]]
    /\ UNCHANGED <<parent, derived, peersByHostPort, peers, peerVars, connVars>>

\* line 275: the loop is over and the deferred l.mut.RUnlock() runs.
ListClose_RUnlock(t) ==
    /\ thr[t].op = "ListClose" /\ thr[t].pc = "lc_runlock"
    /\ lmut' = [lmut EXCEPT ![thr[t].l] = RUnlock(@, t)]
    /\ thr' = [thr EXCEPT ![t].pc = "done"]
    /\ UNCHANGED <<parent, derived, peersByHostPort, peers, peerVars, connVars>>

\* ------------------------------------------------- Peer.AddOutboundConnection
\* The caller hands in a connection made elsewhere, in whatever state it is.
NewConn(s) ==
    /\ Len(connState) < MaxConns
    /\ connState' = Append(connState, s)
    /\ closeCalled' = Append(closeCalled, FALSE)

\* The error of Connect is dropped.
GetConnectionResultNoError(res) == [conn |-> res.conn, err |-> ErrNone]

\* lines 333-337: what GetConnection returns for what Connect returned.
GetConnectionResult(res) ==
    IF res.err # ErrNone THEN [conn |-> 0, err |-> res.err]
    ELSE [conn |-> res.conn, err |-> ErrNone]

\* GetConnection has returned out to the goroutine th: the API call is
\* finished, or BeginCall goes on (lines 392-395): it returns nil and the
\* error, or reaches conn.beginCall at line 400.
GetConnectionReturns(th, out) ==
    IF th.op = "BeginCall" /\ out.err = ErrNone
    THEN [th EXCEPT !.pc = "bc_begin", !.rconn = out.conn, !.rerr = ErrNone]
    ELSE [th EXCEPT !.pc = "done", !.rconn = out.conn, !.rerr = out.err]

\* Connect has returned res: the API call is finished, or GetConnection
\* returns in turn.
ConnectReturns(t, res) ==
    IF thr[t].op = "Connect"
    THEN [thr[t] EXCEPT !.pc = "done", !.cres = res, !.rconn = res.conn,
                        !.rerr = res.err]
    ELSE [GetConnectionReturns(thr[t], GetConnectionResult(res)) EXCEPT !.cres = res]

\* The error of AddOutboundConnection is dropped.
ConnectResultIgnoresError(c, err) == [conn |-> c, err |-> ErrNone]

\* lines 382-386: what Connect returns for what AddOutboundConnection returned.
ConnectResult(c, err) ==
    IF err # ErrNone THEN [conn |-> 0, err |-> err]
    ELSE [conn |-> c, err |-> ErrNone]

\* AddOutboundConnection has returned err: the API call is finished, or
\* Connect returns in turn.
AddOutboundReturns(t, err) ==
    IF thr[t].op = "AddOutboundConnection"
    THEN [thr[t] EXCEPT !.pc = "done", !.rerr = err]
    ELSE ConnectReturns(t, ConnectResult(thr[t].c, err))

CallAddOutboundConnection(t, p, s) ==
    /\ thr[t].op = "idle"
    /\ NewConn(s)
    /\ thr' = [thr EXCEPT ![t] = [Idle EXCEPT !.op = "AddOutboundConnection",
                                              !.pc = "ao_read", !.p = p,
                                              !.c = Len(connState) + 1]]
    /\ UNCHANGED <<listVars, peerVars>>

\* lines 361-366: c.readState() gives a state that is not accepted.
AddOutbound_Reject(t) ==
    /\ thr[t].pc = "ao_read"
    /\ ~ValidForAdd(connState[thr[t].c])
    /\ thr' = [thr EXCEPT ![t] =
                 [AddOutboundReturns(t, ErrInvalidConnectionState)
                    EXCEPT !.seen = connState[thr[t].c]]]
    /\ UNCHANGED <<listVars, peerVars, connVars>>

\* lines 361-363: c.readState() gives active or start-close.
AddOutbound_Accept(t) ==
    /\ thr[t].pc = "ao_read"
    /\ ValidForAdd(connState[thr[t].c])
    /\ thr' = [thr EXCEPT ![t].pc = "ao_lock", ![t].seen = connState[thr[t].c]]
    /\ UNCHANGED <<listVars, peerVars, connVars>>

\* line 368: p.mut.Lock() is entered.
AddOutbound_Lock(t) ==
    /\ thr[t].pc = "ao_lock"
    /\ pmut' = [pmut EXCEPT ![thr[t].p] = LockPending(@, t)]
    /\ thr' = [thr EXCEPT ![t].pc = "ao_locked"]
    /\ UNCHANGED <<listVars, inboundConnections, outboundConnections, connVars>>

\* The connection is accepted but not appended.
AddOutbound_NoAppend(t) ==
    /\ thr[t].pc = "ao_locked"
    /\ CanLock(pmut[thr[t].p])
    /\ pmut' = [pmut EXCEPT ![thr[t].p] = Unlock(Lock(@, t), t)]
    /\ thr' = [thr EXCEPT ![t] = AddOutboundReturns(t, ErrNone)]
    /\ UNCHANGED <<listVars, inboundConnections, outboundConnections, connVars>>

\* lines 368-372: the write lock is granted, c is appended to
\* p.outboundConnections, and the deferred Unlock runs.
AddOutbound_Append(t) ==
    /\ thr[t].pc = "ao_locked"
    /\ CanLock(pmut[thr[t].p])
    /\ pmut' = [pmut EXCEPT ![thr[t].p] = Unlock(Lock(@, t), t)]
    /\ outboundConnections' =
          [outboundConnections EXCEPT ![thr[t].p] = Append(@, thr[t].c)]
    /\ thr' = [thr EXCEPT ![t] = [AddOutboundReturns(t, ErrNone)
                                    EXCEPT !.nadd = thr[t].nadd + 1]]
    /\ UNCHANGED <<listVars, inboundConnections, connVars>>

AddOutboundSteps(t) ==
    \/ AddOutbound_Reject(t)
    \/ AddOutbound_Accept(t)
    \/ AddOutbound_Lock(t)
    \/ AddOutbound_Append(t)

\* -------------------------------------------------- Peer.AddInboundConnection
CallAddInboundConnection(t, p, s) ==
    /\ thr[t].op = "idle"
    /\ NewConn(s)
    /\ thr' = [thr EXCEPT ![t] = [Idle EXCEPT !.op = "AddInboundConnection",
                                              !.pc = "ai_read", !.p = p,
                                              !.c = Len(connState) + 1]]
    /\ UNCHANGED <<listVars, peerVars>>

\* lines 343-349: c.readState() gives a state that is not accepted.
AddInbound_Reject(t) ==
    /\ thr[t].pc = "ai_read"
    /\ ~ValidForAdd(connState[thr[t].c])
    /\ thr' = [thr EXCEPT ![t].pc = "done", ![t].rerr = ErrInvalidConnectionState,
                          ![t].seen = connState[thr[t].c]]
    /\ UNCHANGED <<listVars, peerVars, connVars>>

\* lines 343-346: c.readState() gives active or start-close.
AddInbound_Accept(t) ==
    /\ thr[t].pc = "ai_read"
    /\ ValidForAdd(connState[thr[t].c])
    /\ thr' = [thr EXCEPT ![t].pc = "ai_lock", ![t].seen = connState[thr[t].c]]
    /\ UNCHANGED <<listVars, peerVars, connVars>>

\* line 351: p.mut.Lock() is entered.
AddInbound_Lock(t) ==
    /\ thr[t].pc = "ai_lock"
    /\ pmut' = [pmut EXCEPT ![thr[t].p] = LockPending(@, t)]
    /\ thr' = [thr EXCEPT ![t].pc = "ai_locked"]
    /\ UNCHANGED <<listVars, inboundConnections, outboundConnections, connVars>>

\* lines 351-355: the write lock is granted, c is appended to
\* p.inboundConnections, and the deferred Unlock runs.
AddInbound_Append(t) ==
    /\ thr[t].pc = "ai_locked"
    /\ CanLock(pmut[thr[t].p])
    /\ pmut' = [pmut EXCEPT ![thr[t].p] = Unlock(Lock(@, t), t)]
    /\ inboundConnections' =
          [inboundConnections EXCEPT ![thr[t].p] = Append(@, thr[t].c)]
    /\ thr' = [thr EXCEPT ![t].pc = "done", ![t].rerr = ErrNone,
                          ![t].nadd = thr[t].nadd + 1]
    /\ UNCHANGED <<listVars, outboundConnections, connVars>>

AddInboundSteps(t) ==
    \/ AddInbound_Reject(t)
    \/ AddInbound_Accept(t)
    \/ AddInbound_Lock(t)
    \/ AddInbound_Append(t)

\* ------------------------------------------------------------ Peer.Connect
CallConnect(t, p) ==
    /\ thr[t].op = "idle"
    /\ thr' = [thr EXCEPT ![t] = [Idle EXCEPT !.op = "Connect", !.pc = "connect",
                                              !.p = p]]
    /\ UNCHANGED <<listVars, peerVars, connVars>>

\* line 377, Connectable.Connect succeeds: a new connection, handshake done.
Connect_Dial_Ok(t) ==
    /\ thr[t].pc = "connect"
    /\ NewConn(connectionActive)
    /\ thr' = [thr EXCEPT ![t].pc = "ao_read", ![t].c = Len(connState) + 1,
                          ![t].nconn = @ + 1]
    /\ UNCHANGED <<listVars, peerVars>>

\* Connectable.Connect fails and is called again.
Connect_Dial_FailRetry(t) ==
    /\ thr[t].pc = "connect"
    /\ thr[t].nconn < 2
    /\ thr' = [thr EXCEPT ![t].nconn = @ + 1]
    /\ UNCHANGED <<listVars, peerVars, connVars>>

\* lines 377-380, Connectable.Connect fails: Connect returns nil and the error.
Connect_Dial_Fail(t) ==
    /\ thr[t].pc = "connect"
    /\ thr' = [thr EXCEPT ![t] = [ConnectReturns(t, [conn |-> 0, err |-> ErrConnect])
                                    EXCEPT !.nconn = thr[t].nconn + 1]]
    /\ UNCHANGED <<listVars, peerVars, connVars>>

ConnectSteps(t) ==
    \/ Connect_Dial_Ok(t)
    \/ Connect_Dial_Fail(t)

\* ------------------------------------------------------ Peer.GetConnection
CallGetConnection(t, p) ==
    /\ thr[t].op = "idle"
    /\ thr' = [thr EXCEPT ![t] = [Idle EXCEPT !.op = "GetConnection",
                                              !.pc = "ga_rlock", !.p = p]]
    /\ UNCHANGED <<listVars, peerVars, connVars>>

\* line 307: p.mut.RLock()
getActive_RLock(t) ==
    /\ thr[t].pc = "ga_rlock"
    /\ CanRLock(pmut[thr[t].p])
    /\ pmut' = [pmut EXCEPT ![thr[t].p] = RLock(@, t)]
    /\ thr' = [thr EXCEPT ![t].pc = "ga_iter", ![t].i = 1]
    /\ UNCHANGED <<listVars, inboundConnections, outboundConnections, connVars>>

\* lines 310-314: the next connection of runWithConnections is kept when
\* c.IsActive().
getActive_Conn(t) ==
    /\ thr[t].pc = "ga_iter"
    /\ thr[t].i <= Len(runWithConnections(thr[t].p))
    /\ LET c == runWithConnections(thr[t].p)[thr[t].i] IN
       thr' = [thr EXCEPT ![t].i = @ + 1,
                          ![t].active = IF IsActive(c) THEN Append(@, c) ELSE @]
    /\ UNCHANGED <<listVars, peerVars, connVars>>

\* randConn: any element of a non-empty list of connections.
randConn(conns) == Range(conns)

\* lines 316-317 and 328-330: p.mut.RUnlock(); some connection was active,
\* and one of them is returned.
GetConnection_Reuse(t) ==
    /\ thr[t].pc = "ga_iter"
    /\ thr[t].i > Len(runWithConnections(thr[t].p))
    /\ Len(thr[t].active) > 0
    /\ pmut' = [pmut EXCEPT ![thr[t].p] = RUnlock(@, t)]
    /\ \E c \in randConn(thr[t].active) :
          thr' = [thr EXCEPT ![t] = GetConnectionReturns(thr[t], [conn |-> c, err |-> ErrNone])]
    /\ UNCHANGED <<listVars, inboundConnections, outboundConnections, connVars>>

\* p.Connect is called whether or not a connection was active.
GetConnection_ConnectAlways(t) ==
    /\ thr[t].pc = "ga_iter"
    /\ thr[t].i > Len(runWithConnections(thr[t].p))
    /\ pmut' = [pmut EXCEPT ![thr[t].p] = RUnlock(@, t)]
    /\ thr' = [thr EXCEPT ![t].pc = "connect"]
    /\ UNCHANGED <<listVars, inboundConnections, outboundConnections, connVars>>

\* The connections, none of them active, are dropped before p.Connect is
\* called.
GetConnection_ConnectClearing(t) ==
    /\ thr[t].pc = "ga_iter"
    /\ thr[t].i > Len(runWithConnections(thr[t].p))
    /\ ~(Len(thr[t].active) > 0)
    /\ pmut' = [pmut EXCEPT ![thr[t].p] = RUnlock(@, t)]
    /\ inboundConnections' = [inboundConnections EXCEPT ![thr[t].p] = << >>]
    /\ outboundConnections' = [outboundConnections EXCEPT ![thr[t].p] = << >>]
    /\ thr' = [thr EXCEPT ![t].pc = "connect"]
    /\ UNCHANGED <<listVars, connVars>>

\* lines 316-317 and 328-333: p.mut.RUnlock(); no connection was active, and
\* p.Connect is called.
GetConnection_Connect(t) ==
    /\ thr[t].pc = "ga_iter"
    /\ thr[t].i > Len(runWithConnections(thr[t].p))
    /\ ~(Len(thr[t].active) > 0)
    /\ pmut' = [pmut EXCEPT ![thr[t].p] = RUnlock(@, t)]
    /\ thr' = [thr EXCEPT ![t].pc = "connect"]
    /\ UNCHANGED <<listVars, inboundConnections, outboundConnections, connVars>>

GetConnectionSteps(t) ==
    \/ getActive_RLock(t)
    \/ getActive_Conn(t)
    \/ GetConnection_Reuse(t)
    \/ GetConnection_Connect(t)

\* ---------------------------------------------------------- Peer.BeginCall
\* line 392: p.GetConnection(ctx) is called.
CallBeginCall(t, p) ==
    /\ thr[t].op = "idle"
    /\ thr' = [thr EXCEPT ![t] = [Idle EXCEPT !.op = "BeginCall",
                                              !.pc = "ga_rlock", !.p = p]]
    /\ UNCHANGED <<listVars, peerVars, connVars>>

\* lines 400-405, conn.beginCall succeeds: the call and a nil error.
BeginCall_Ok(t) ==
    /\ thr[t].pc = "bc_begin"
    /\ thr' = [thr EXCEPT ![t].pc = "done", ![t].rcall = "call", ![t].rerr = ErrNone]
    /\ UNCHANGED <<listVars, peerVars, connVars>>

\* lines 400-403, conn.beginCall fails: nil and its error.
BeginCall_Fail(t) ==
    /\ thr[t].pc = "bc_begin"
    /\ thr' = [thr EXCEPT ![t].pc = "done", ![t].rcall = NoCall, ![t].rerr = ErrBeginCall]
    /\ UNCHANGED <<listVars, peerVars, connVars>>

BeginCallSteps(t) ==
    \/ BeginCall_Ok(t)
    \/ BeginCall_Fail(t)

\* ------------------------------------------------------------- Connection
\* A connection's own lifecycle: the remote side or the network moves it on.
ConnAdvance(c) ==
    /\ connState[c] # connectionClosed
    /\ connState' = [connState EXCEPT ![c] =
                        IF @ = connectionActive THEN connectionStartClose
                        ELSE connectionClosed]
    /\ UNCHANGED <<listVars, peerVars, closeCalled, thr>>

\* ------------------------------------------------------- the specifications
\* The addresses the calls of the tree specification use.
NumTreeAddrs == 1
TreeAddrs == 1..NumTreeAddrs

\* The tree of lists: lists are derived and peers are added and looked up
\* from any list.
NextTree ==
    \/ \E l \in Lists : newSibling(l)
    \/ \E l \in Lists : newChild(l)
    \/ \E t \in Threads, l \in Lists, a \in TreeAddrs : CallAdd(t, l, a)
    \/ \E t \in Threads, l \in Lists, a \in TreeAddrs : CallGetOrAdd(t, l, a)
    \/ \E t \in Threads, l \in Lists : CallGet(t, l)
    \/ \E t \in Threads, l \in Lists : CallCopy(t, l)
    \/ \E t \in Threads : AddSteps(t)
    \/ \E t \in Threads : Add_Recheck_Delegate(t)
    \/ \E t \in Threads : GetOrAdd_Hit(t) \/ GetOrAdd_Miss(t)
    \/ \E t \in Threads : Get_NoPeers(t) \/ Get_Choose(t)
    \/ \E t \in Threads : Copy_Snapshot(t)
    \/ \E t \in Threads : Return(t)

SpecTree == Init /\ [][NextTree]_vars

\* The siblings: up to MaxSiblingLists lists are derived, so that a list
\* that has a parent makes two siblings, which share that parent; peers are
\* added through any list and any list is copied.
MaxSiblingLists == 4

NextSiblings ==
    \/ \E l \in Lists : newSiblingWithin(l, MaxSiblingLists)
    \/ \E l \in Lists : newChildWithin(l, MaxSiblingLists)
    \/ \E t \in Threads, l \in Lists, a \in TreeAddrs : CallAdd(t, l, a)
    \/ \E t \in Threads, l \in Lists, a \in TreeAddrs : CallGetOrAdd(t, l, a)
    \/ \E t \in Threads, l \in Lists : CallCopy(t, l)
    \/ \E t \in Threads : AddSteps(t)
    \/ \E t \in Threads : Add_Recheck_Delegate(t)
    \/ \E t \in Threads : GetOrAdd_Hit(t) \/ GetOrAdd_Miss(t)
    \/ \E t \in Threads : Copy_Snapshot(t)
    \/ \E t \in Threads : Return(t)

SpecSiblings == Init /\ [][NextSiblings]_vars

\* One call at a time: lists are derived and Add and GetOrAdd are called
\* only when no call is running, and each call remembers the maps, the
\* slices and the Peers there were when it was made.  With one call at a
\* time the recheck under the write lock never finds the address.
Quiescent == \A t \in Threads : thr[t].op = "idle"

StateAtCall == [map |-> peersByHostPort, seq |-> peers, made |-> Peers]

SeqCallAdd(t, l, a) ==
    /\ Quiescent
    /\ thr' = [thr EXCEPT ![t] = [Idle EXCEPT !.op = "Add", !.pc = "add_rlock",
                                              !.l = l, !.hp = a, !.stack = <<l>>,
                                              !.pre = StateAtCall]]
    /\ UNCHANGED <<listVars, peerVars, connVars>>

SeqCallGetOrAdd(t, l, a) ==
    /\ Quiescent
    /\ thr' = [thr EXCEPT ![t] = [Idle EXCEPT !.op = "GetOrAdd", !.pc = "goa_rlock",
                                              !.l = l, !.hp = a,
                                              !.pre = StateAtCall]]
    /\ UNCHANGED <<listVars, peerVars, connVars>>

NextSeq ==
    \/ \E l \in Lists : Quiescent /\ newSibling(l)
    \/ \E l \in Lists : Quiescent /\ newChild(l)
    \/ \E t \in Threads, l \in Lists, a \in Addrs : SeqCallAdd(t, l, a)
    \/ \E t \in Threads, l \in Lists, a \in Addrs : SeqCallGetOrAdd(t, l, a)
    \/ \E t \in Threads : Add_Lookup_Hit(t) \/ Add_Lookup_Miss(t) \/ Add_Lock(t)
    \/ \E t \in Threads : Add_Recheck_NewPeer(t) \/ Add_Recheck_Delegate(t)
    \/ \E t \in Threads : Add_Index(t) \/ Add_Append(t)
    \/ \E t \in Threads : GetOrAdd_Hit(t) \/ GetOrAdd_Miss(t)
    \/ \E t \in Threads : Return(t)

SpecSeq == Init /\ [][NextSeq]_vars

\* The pool of connections of one peer of the root list.
InitPool == InitAdded(<<1>>)

NextPool ==
    \/ \E t \in Threads, p \in Peers : CallGetConnection(t, p)
    \/ \E t \in Threads, p \in Peers : CallConnect(t, p)
    \/ \E t \in Threads, p \in Peers : CallBeginCall(t, p)
    \/ \E t \in Threads, p \in Peers, s \in ConnStates : CallAddInboundConnection(t, p, s)
    \/ \E t \in Threads, p \in Peers, s \in ConnStates : CallAddOutboundConnection(t, p, s)
    \/ \E t \in Threads, p \in Peers : CallPeerClose(t, p)
    \/ \E t \in Threads : GetConnectionSteps(t)
    \/ \E t \in Threads : BeginCallSteps(t)
    \/ \E t \in Threads : ConnectSteps(t)
    \/ \E t \in Threads : AddInboundSteps(t)
    \/ \E t \in Threads : AddOutboundSteps(t)
    \/ \E t \in Threads : PeerCloseSteps(t)
    \/ \E c \in Conns : ConnAdvance(c)
    \/ \E t \in Threads : Return(t)

SpecPool == InitPool /\ [][NextPool]_vars

\* The locks held across calls: child lists are derived, peers are added
\* through them, lists are closed and peers connect.  Connections stay in
\* the state Connect and Close leave them in.
NextLocks ==
    \/ \E l \in Lists : newChild(l)
    \/ \E t \in Threads, l \in Lists, a \in TreeAddrs : CallAdd(t, l, a)
    \/ \E t \in Threads, l \in Lists : CallListClose(t, l)
    \/ \E t \in Threads, p \in Peers : CallConnect(t, p)
    \/ \E t \in Threads : AddSteps(t)
    \/ \E t \in Threads : Add_Recheck_Delegate(t)
    \/ \E t \in Threads : ListClose_RLock(t) \/ ListClose_RUnlock(t)
    \/ \E t \in Threads : PeerCloseSteps(t)
    \/ \E t \in Threads : ConnectSteps(t)
    \/ \E t \in Threads : AddOutbound_Accept(t) \/ AddOutbound_Lock(t) \/ AddOutbound_Append(t)
    \/ \E t \in Threads : Return(t)

SpecLocks == Init /\ [][NextLocks]_vars

\* Closing the root list while peers are added to it and connections are
\* registered with its peers.
InitClose == InitAdded(<<1>>)

NextClose ==
    \/ \E t \in Threads, a \in Addrs : CallAdd(t, 1, a)
    \/ \E t \in Threads : CallListClose(t, 1)
    \/ \E t \in Threads, p \in Peers : CallPeerClose(t, p)
    \/ \E t \in Threads, p \in Peers : CallConnect(t, p)
    \/ \E t \in Threads, p \in Peers, s \in ConnStates : CallAddInboundConnection(t, p, s)
    \/ \E t \in Threads, p \in Peers, s \in ConnStates : CallAddOutboundConnection(t, p, s)
    \/ \E t \in Threads : AddSteps(t)
    \/ \E t \in Threads : ListClose_RLock(t) \/ ListClose_RUnlock(t)
    \/ \E t \in Threads : PeerCloseSteps(t)
    \/ \E t \in Threads : ConnectSteps(t)
    \/ \E t \in Threads : AddInboundSteps(t)
    \/ \E t \in Threads : AddOutboundSteps(t)
    \/ \E c \in Conns : ConnAdvance(c)
    \/ \E t \in Threads : Return(t)

SpecClose == InitClose /\ [][NextClose]_vars

\* Every method at once, on a root list and a child of it: peers are added,
\* looked up and closed through both lists while connections are registered
\* with them.  Connections stay in the state Connect and Close leave them in,
\* and a caller registers a connection of its own only while fewer than
\* MaxRegistered connections exist.
MaxRegistered == 1

InitLive ==
    /\ parent = <<0, 1>>
    /\ derived = <<[kind |-> "root", from |-> 0], [kind |-> "child", from |-> 1]>>
    /\ peersByHostPort = <<newPeerList, newPeerList>>
    /\ peers = << << >>, << >> >>
    /\ lmut = <<NewMutex, NewMutex>>
    /\ inboundConnections = << >>
    /\ outboundConnections = << >>
    /\ pmut = << >>
    /\ connState = << >>
    /\ closeCalled = << >>
    /\ thr = [t \in Threads |-> Idle]

CallLive(t) ==
    \/ \E l \in Lists, a \in TreeAddrs : CallAdd(t, l, a) \/ CallGetOrAdd(t, l, a)
    \/ \E l \in Lists : CallGet(t, l) \/ CallCopy(t, l) \/ CallListClose(t, l)
    \/ \E p \in Peers : CallGetConnection(t, p) \/ CallConnect(t, p) \/ CallPeerClose(t, p)
    \/ \E p \in Peers : CallBeginCall(t, p)
    \/ \E p \in Peers, s \in {connectionActive, connectionClosed} :
          /\ Len(connState) < MaxRegistered
          /\ CallAddInboundConnection(t, p, s) \/ CallAddOutboundConnection(t, p, s)

\* The steps of the call goroutine t is in.
StepLive(t) ==
    \/ AddSteps(t) \/ Add_Recheck_Delegate(t)
    \/ GetOrAdd_Hit(t) \/ GetOrAdd_Miss(t)
    \/ Get_NoPeers(t) \/ Get_Choose(t)
    \/ Copy_Snapshot(t)
    \/ ListClose_RLock(t) \/ ListClose_RUnlock(t)
    \/ PeerCloseSteps(t)
    \/ GetConnectionSteps(t)
    \/ BeginCallSteps(t)
    \/ ConnectSteps(t)
    \/ AddInboundSteps(t)
    \/ AddOutboundSteps(t)

NextLive ==
    \/ \E t \in Threads : CallLive(t)
    \/ \E t \in Threads : StepLive(t)
    \/ \E t \in Threads : Return(t)

\* The scheduler runs every goroutine that stays able to run, and the
\* Connector and the connections return from every call.
FairLive == \A t \in Threads : WF_vars(StepLive(t))

\* Every method at once, with no assumption on the scheduler.
SpecAll == InitLive /\ [][NextLive]_vars

SpecLive == SpecAll /\ FairLive

\* ------------------------------------------------------------ the tree
RECURSIVE RootOf(_)
RootOf(l) == IF parent[l] = 0 THEN l ELSE RootOf(parent[l])

Done(t, op) == thr[t].pc = "done" /\ thr[t].op = op
Indexed(l, a) == peersByHostPort[IndexOf(l)][a]
Stepped(t) == thr'[t] # thr[t]

\* C1 (as claimed): two Add calls for one address, on any two lists derived
\* from the same first list by newChild and newSibling, the siblings of
\* the root list among them, return the same Peer object.
C1_Uniqueness ==
    \A t1, t2 \in Threads :
        (Done(t1, "Add") /\ Done(t2, "Add") /\ thr[t1].hp = thr[t2].hp)
            => thr[t1].rpeer = thr[t2].rpeer

\* C2: every address a list with a parent indexes is indexed by the parent
\* too, with the same Peer object; and what Add or GetOrAdd returned for an
\* address is what the list indexes for it.
C2_SubsetInvariant ==
    /\ \A c \in Lists : \A a \in Addrs :
          (parent[c] # 0 /\ Indexed(c, a) # NoPeer)
              => Indexed(parent[c], a) = Indexed(c, a)
    /\ \A t \in Threads :
          (Done(t, "Add") \/ Done(t, "GetOrAdd"))
              => (thr[t].rpeer # NoPeer /\ Indexed(thr[t].l, thr[t].hp) = thr[t].rpeer)

\* C2's case: a call on a child list has returned a peer, which the child
\* and its parent both index.
C2_Witness ==
    \E t \in Threads :
        /\ Done(t, "GetOrAdd")
        /\ parent[thr[t].l] # 0
        /\ Indexed(parent[thr[t].l], thr[t].hp) = thr[t].rpeer
        /\ thr[t].rpeer # NoPeer

\* C3 (as claimed): the list l.newSibling() returns has the root list of l
\* for its root, whether l is a root or not, and resolves an address to the
\* Peer object l resolves it to.
C3_SiblingSharesRoot ==
    \A s \in Lists :
        derived[s].kind = "sibling" =>
            /\ RootOf(s) = RootOf(derived[s].from)
            /\ \A a \in Addrs :
                  (Indexed(s, a) # NoPeer /\ Indexed(derived[s].from, a) # NoPeer)
                      => Indexed(s, a) = Indexed(derived[s].from, a)

\* Two different lists that newSibling made from the same list.
SiblingsOfOneCreator(s1, s2) ==
    /\ s1 # s2
    /\ derived[s1].kind = "sibling" /\ derived[s2].kind = "sibling"
    /\ derived[s1].from = derived[s2].from

\* C4: no step of an Add or a GetOrAdd called on a sibling S1 changes the map
\* or the slice of another sibling S2 of the same creator, and what S2.Copy()
\* returned holds only what S2 indexes.
C4_SiblingIsolation ==
    [][ /\ \A t \in Threads : \A s2 \in Lists :
            (/\ Stepped(t)
             /\ thr[t].op \in {"Add", "GetOrAdd"}
             /\ SiblingsOfOneCreator(thr[t].l, s2))
                => /\ peersByHostPort'[IndexOf(s2)] = peersByHostPort[IndexOf(s2)]
                   /\ peers'[IndexOf(s2)] = peers[IndexOf(s2)]
        /\ \A t \in Threads :
            (thr'[t].pc = "done" /\ thr'[t].op = "Copy" /\ Stepped(t))
                => thr'[t].rcopy = peersByHostPort[IndexOf(thr[t].l)]
      ]_vars

\* C4's case: S1 and S2 are siblings made by a list that has a parent, so
\* they share that parent.  An address was added through S1 alone, the Add
\* having delegated to the shared parent, which indexes the Peer now; the
\* copy of S2 that was taken afterwards does not hold it, and neither S2 nor
\* the list that made the siblings indexes it.
C4_Witness ==
    \E t1, t2 \in Threads :
        /\ Done(t1, "Add") /\ Done(t2, "Copy")
        /\ SiblingsOfOneCreator(thr[t1].l, thr[t2].l)
        /\ ~isRoot(derived[thr[t1].l].from)
        /\ parent[thr[t1].l] = parent[thr[t2].l]
        /\ ~isRoot(thr[t1].l)
        /\ Indexed(thr[t1].l, thr[t1].hp) = thr[t1].rpeer
        /\ thr[t1].rpeer # NoPeer
        /\ Indexed(parent[thr[t1].l], thr[t1].hp) = thr[t1].rpeer
        /\ thr[t2].rcopy[thr[t1].hp] = NoPeer
        /\ Indexed(thr[t2].l, thr[t1].hp) = NoPeer
        /\ Indexed(derived[thr[t1].l].from, thr[t1].hp) = NoPeer

\* ------------------------------------------------------------ the pool
\* C5: a GetConnection that found some connection active has called the
\* Connector not once, has added nothing to the pool, and has returned, with
\* no error, one of the connections it found active.
C5_ConnectionReuse ==
    \A t \in Threads :
        (Done(t, "GetConnection") /\ Len(thr[t].active) > 0)
            => /\ thr[t].nconn = 0
               /\ thr[t].nadd = 0
               /\ thr[t].rerr = ErrNone
               /\ thr[t].rconn \in Range(thr[t].active)

\* C5's case: GetConnection has returned one of two connections it found
\* active.
C5_Witness ==
    \E t \in Threads :
        /\ Done(t, "GetConnection")
        /\ Len(thr[t].active) = 2
        /\ thr[t].rconn = thr[t].active[2]

\* C6: a GetConnection that found no connection active has called the
\* Connector exactly once and has returned what Connect returned: the new
\* connection, registered as outbound, or nil and the error.
C6_LazyConnect ==
    \A t \in Threads :
        (Done(t, "GetConnection") /\ Len(thr[t].active) = 0)
            => /\ thr[t].nconn = 1
               /\ thr[t].rconn = thr[t].cres.conn
               /\ thr[t].rerr = thr[t].cres.err
               /\ thr[t].rerr = ErrNone =>
                     /\ thr[t].rconn = thr[t].c
                     /\ thr[t].rconn \in Range(outboundConnections[thr[t].p])
               /\ thr[t].rerr # ErrNone => thr[t].rconn = 0

\* C6's case: one GetConnection found nothing active and returned its new
\* connection, another found nothing active and returned the failure.
C6_Witness ==
    \E t1, t2 \in Threads :
        /\ Done(t1, "GetConnection") /\ Len(thr[t1].active) = 0
        /\ thr[t1].rerr = ErrNone /\ thr[t1].rconn # 0
        /\ Done(t2, "GetConnection") /\ Len(thr[t2].active) = 0
        /\ thr[t2].rerr = ErrConnect

\* C7 (as claimed): whenever a connection is appended to the inbound or the
\* outbound list of a peer, its state at that instant is active or
\* start-close.
C7_NoClosedConnectionPooled ==
    [][\A p \in Peers :
        /\ inboundConnections'[p] # inboundConnections[p]
              => ValidForAdd(connState'[Last(inboundConnections'[p])])
        /\ outboundConnections'[p] # outboundConnections[p]
              => ValidForAdd(connState'[Last(outboundConnections'[p])])
      ]_vars

\* C8: AddInboundConnection and AddOutboundConnection that read the state
\* closed have returned ErrInvalidConnectionState and the connection is in
\* neither list; those that read active or start-close have returned nil and
\* have appended the connection, once, to their own list and not to the other.
C8_InvalidStateRejection ==
    \A t \in Threads :
        (Done(t, "AddInboundConnection") \/ Done(t, "AddOutboundConnection")) =>
            LET mine == IF thr[t].op = "AddInboundConnection"
                        THEN inboundConnections[thr[t].p]
                        ELSE outboundConnections[thr[t].p]
                other == IF thr[t].op = "AddInboundConnection"
                         THEN outboundConnections[thr[t].p]
                         ELSE inboundConnections[thr[t].p]
            IN /\ thr[t].seen = connectionClosed =>
                     /\ thr[t].rerr = ErrInvalidConnectionState
                     /\ thr[t].nadd = 0
                     /\ thr[t].c \notin Range(mine) \cup Range(other)
               /\ thr[t].seen \in {connectionActive, connectionStartClose} =>
                     /\ thr[t].rerr = ErrNone
                     /\ thr[t].nadd = 1
                     /\ Cardinality({i \in 1..Len(mine) : mine[i] = thr[t].c}) = 1
                     /\ thr[t].c \notin Range(other)

\* C8's case: an AddInboundConnection was refused a closed connection, and
\* an AddOutboundConnection has registered one in start-close.
C8_Witness ==
    \E t1, t2 \in Threads :
        /\ Done(t1, "AddInboundConnection")
        /\ thr[t1].seen = connectionClosed
        /\ thr[t1].rerr = ErrInvalidConnectionState
        /\ Done(t2, "AddOutboundConnection")
        /\ thr[t2].seen = connectionStartClose
        /\ thr[t2].c \in Range(outboundConnections[thr[t2].p])

\* ------------------------------------------------------------ the locks
HeldLists(t) == {l \in Lists : lmut[l].w = t \/ t \in lmut[l].r}
HeldPeers(t) == {p \in Peers : pmut[p].w = t \/ t \in pmut[p].r}

\* The goroutine is inside an Add that another Add called (line 226).
InDelegatedAdd(t) == Len(thr[t].stack) >= 2

\* The goroutine is inside a Peer.Close that PeerList.Close called (line 278).
InCloseOfPeer(t) == thr[t].op = "ListClose" /\ thr[t].pc \in {"pc_rlock", "pc_iter"}

\* The goroutine is about to call, or is inside, Connectable.Connect (line 377).
AtConnector(t) == thr[t].pc = "connect"

\* C9 (as claimed): a goroutine holds no PeerList lock while the parent's Add
\* that its Add called runs, nor while a Peer.Close that PeerList.Close called
\* runs, and holds no lock at all while Connect calls the Connector.
C9_NoListLockAcrossCalls ==
    \A t \in Threads :
        /\ InDelegatedAdd(t) =>
              \A i \in 1..(Len(thr[t].stack) - 1) : thr[t].stack[i] \notin HeldLists(t)
        /\ InCloseOfPeer(t) => HeldLists(t) = {}
        /\ AtConnector(t) => (HeldLists(t) = {} /\ HeldPeers(t) = {})

\* C9 (amended): Connect calls the Connector holding no Peer and no PeerList
\* lock; but an Add runs its parent's Add holding the write lock of its own
\* list (a chain of delegations holds the write lock of every list below the
\* one it has reached), and PeerList.Close runs each Peer.Close holding the
\* read lock of the list.
C9_LockDiscipline ==
    \A t \in Threads :
        /\ AtConnector(t) => (HeldLists(t) = {} /\ HeldPeers(t) = {})
        /\ InDelegatedAdd(t) =>
              \A i \in 1..(Len(thr[t].stack) - 1) : lmut[thr[t].stack[i]].w = t
        /\ InCloseOfPeer(t) => t \in lmut[thr[t].l].r

\* C9's case: one goroutine has delegated an Add twice, up to the root, and
\* another is closing a connection of a peer for PeerList.Close.
C9_Witness ==
    \E t1, t2 \in Threads :
        /\ Len(thr[t1].stack) = 3
        /\ InCloseOfPeer(t2) /\ thr[t2].pc = "pc_iter"
        /\ thr[t2].i <= Len(CloseOrder(thr[t2].p))

\* ------------------------------------------------------------ closing
\* C10 (as claimed): when PeerList.Close returns, Close has been called on
\* every connection that the peers the list indexed at the call then have in
\* their inbound and outbound lists.
C10_CloseCompleteness ==
    [][\A t \in Threads :
        (thr[t].op = "ListClose" /\ thr[t].pc # "done" /\ thr'[t].pc = "done")
            => \A p \in thr[t].snapPeers :
                  \A c \in Range(inboundConnections'[p]) \cup Range(outboundConnections'[p]) :
                      closeCalled'[c]
      ]_vars

\* C10 (amended): once PeerList.Close has returned, Close has been called on
\* every connection that was, at the time of the call, in the inbound or the
\* outbound list of a peer the list indexed.
C10_ClosesConnectionsOfTheCall ==
    \A t \in Threads :
        Done(t, "ListClose") => \A c \in thr[t].snap : closeCalled[c]

\* C10's case: the list indexed two peers at the call, with an inbound
\* connection and an outbound one between them, and Close has returned.
C10_Witness ==
    \E t \in Threads :
        /\ Done(t, "ListClose")
        /\ Cardinality(thr[t].snapPeers) = 2
        /\ \E p \in thr[t].snapPeers : Range(inboundConnections[p]) \cap thr[t].snap # {}
        /\ \E p \in thr[t].snapPeers : Range(outboundConnections[p]) \cap thr[t].snap # {}

\* ------------------------------------------------------------ the failures
\* C11: a Get that finds the peer sequence of its list empty returns nil and
\* ErrNoPeers, and changes no list, no pool and no connection and calls no
\* Connector; a Get that finds it non-empty returns one of its peers and no
\* error.
C11_EmptyListFailure ==
    [][\A t \in Threads :
        (thr[t].op = "Get" /\ thr[t].pc = "get_rlock" /\ thr'[t].pc = "done") =>
            IF Len(peers[IndexOf(thr[t].l)]) = 0
            THEN /\ thr'[t].rpeer = NoPeer
                 /\ thr'[t].rerr = ErrNoPeers
                 /\ thr'[t].nconn = 0
                 /\ UNCHANGED <<listVars, peerVars, connVars>>
            ELSE /\ thr'[t].rerr = ErrNone
                 /\ thr'[t].rpeer \in Range(peers[IndexOf(thr[t].l)])
      ]_vars

\* C11's case: one Get has failed on an empty list, another has returned a
\* peer of a non-empty one.
C11_Witness ==
    \E t1, t2 \in Threads :
        /\ Done(t1, "Get") /\ thr[t1].rerr = ErrNoPeers /\ thr[t1].rpeer = NoPeer
        /\ peers[IndexOf(thr[t1].l)] = << >>
        /\ Done(t2, "Get") /\ thr[t2].rerr = ErrNone
        /\ thr[t2].rpeer \in Range(peers[IndexOf(thr[t2].l)])

\* The Connector is called by goroutine t in this step and gives no
\* connection.
ConnectorFails(t) ==
    /\ thr[t].pc = "connect" /\ Stepped(t)
    /\ Len(connState') = Len(connState)

\* C12: when the Connector fails, the Connect, GetConnection or BeginCall
\* that called it returns at once, with the Connector's error and neither a
\* connection nor a call, having called the Connector once and registered
\* nothing; no connection list of any peer and no index of any list changes.
C12_ConnectFailureSurfaced ==
    [][\A t \in Threads :
        ConnectorFails(t) =>
            /\ thr'[t].pc = "done"
            /\ thr'[t].rerr = ErrConnect
            /\ thr'[t].rconn = 0
            /\ thr'[t].rcall = NoCall
            /\ thr'[t].nconn = 1
            /\ thr'[t].nadd = 0
            /\ UNCHANGED <<listVars, peerVars>>
      ]_vars

\* C12's case: a BeginCall and a GetConnection have both returned the
\* failure of the Connector.
C12_Witness ==
    \E t1, t2 \in Threads :
        /\ Done(t1, "BeginCall") /\ thr[t1].rerr = ErrConnect /\ thr[t1].nconn = 1
        /\ Done(t2, "GetConnection") /\ thr[t2].rerr = ErrConnect /\ thr[t2].nconn = 1

\* ------------------------------------------------------------ GetOrAdd
\* What l.Add(a) returns and leaves behind when it runs alone from the maps,
\* slices and Peers of st (lines 204-231, the locks aside).
RECURSIVE AddOutcome(_, _, _)
AddOutcome(st, l, a) ==
    IF st.map[IndexOf(l)][a] # NoPeer
    THEN [peer |-> st.map[IndexOf(l)][a], map |-> st.map, seq |-> st.seq, made |-> st.made]
    ELSE LET up == IF isRoot(l)
                   THEN LET p == [list |-> l, hostPort |-> a,
                                  n |-> 1 + Cardinality({q \in st.made :
                                                q.list = l /\ q.hostPort = a})]
                        IN [peer |-> p, map |-> st.map, seq |-> st.seq,
                            made |-> st.made \cup {p}]
                   ELSE AddOutcome(st, parent[l], a)
         IN [peer |-> up.peer,
             map |-> [up.map EXCEPT ![IndexOf(l)][a] = up.peer],
             seq |-> [up.seq EXCEPT ![IndexOf(l)] = Append(@, up.peer)],
             made |-> up.made]

\* C13: a GetOrAdd that ran alone has returned the Peer, and left the maps,
\* the slices and the set of Peers, that Add returns and leaves from the
\* state the call was made in, and so has an Add that ran alone; a GetOrAdd
\* for an address its list indexed already has returned that Peer and has
\* changed nothing.
C13_GetOrAddAsAdd ==
    \A t \in Threads :
        ((Done(t, "GetOrAdd") \/ Done(t, "Add")) /\ thr[t].pre # NoPre) =>
            LET add == AddOutcome(thr[t].pre, thr[t].l, thr[t].hp)
                was == thr[t].pre.map[IndexOf(thr[t].l)][thr[t].hp]
            IN /\ thr[t].rpeer = add.peer
               /\ peersByHostPort = add.map
               /\ peers = add.seq
               /\ Peers = add.made
               /\ (Done(t, "GetOrAdd") /\ was # NoPeer) =>
                     /\ thr[t].rpeer = was
                     /\ peersByHostPort = thr[t].pre.map
                     /\ peers = thr[t].pre.seq
                     /\ Peers = thr[t].pre.made

\* C13's case: a GetOrAdd on a list two levels below the root has returned
\* a Peer that no list indexed when it was called.
C13_Witness ==
    \E t \in Threads :
        /\ Done(t, "GetOrAdd") /\ thr[t].pre # NoPre
        /\ parent[thr[t].l] # 0 /\ parent[parent[thr[t].l]] # 0
        /\ thr[t].rpeer \notin thr[t].pre.made
        /\ Indexed(thr[t].l, thr[t].hp) = thr[t].rpeer

\* C14: no step of a PeerList.Close or of a Peer.Close changes the map or
\* the slice of any list, the shape of the tree, or the inbound or outbound
\* list of any peer; and once the call has returned it holds no lock.
C14_CloseKeepsRegistry ==
    [][\A t \in Threads :
        (Stepped(t) /\ (thr[t].op \in {"ListClose", "PeerClose"}
                          \/ thr'[t].op \in {"ListClose", "PeerClose"})) =>
            /\ UNCHANGED <<parent, derived, peersByHostPort, peers>>
            /\ UNCHANGED <<inboundConnections, outboundConnections>>
            /\ thr'[t].pc = "done" => (HeldLists(t)' = {} /\ HeldPeers(t)' = {})
      ]_vars

\* C14's case: a PeerList.Close and a Peer.Close have returned, Close was
\* called on an inbound and on an outbound connection, and both are still
\* in the lists of their peer.
C14_Witness ==
    \E t1, t2 \in Threads :
        /\ Done(t1, "ListClose") /\ Done(t2, "PeerClose")
        /\ \E p \in thr[t1].snapPeers :
              /\ \E c \in Range(inboundConnections[p]) : closeCalled[c]
              /\ \E c \in Range(outboundConnections[p]) : closeCalled[c]

\* ------------------------------------------------------------ idempotence
\* An Add has been called on a list that indexes the address, and has not
\* looked it up yet.
AddOfIndexed(t) ==
    /\ thr[t].op = "Add" /\ thr[t].pc = "add_rlock"
    /\ thr[t].stack = <<thr[t].l>>
    /\ Indexed(thr[t].l, thr[t].hp) # NoPeer

\* C15: the Add of an address its list indexes already returns, in its next
\* step, the Peer the list indexes, without having taken the write lock,
\* called the Add of the parent or made a Peer, and leaves the map and the
\* slice of every list as they were.
C15_AddIdempotent ==
    [][\A t \in Threads :
        (AddOfIndexed(t) /\ Stepped(t)) =>
            /\ thr'[t].pc = "done"
            /\ thr'[t].rpeer = Indexed(thr[t].l, thr[t].hp)
            /\ thr'[t].nlock = 0
            /\ Peers' = Peers
            /\ UNCHANGED <<parent, derived, peersByHostPort, peers>>
      ]_vars

\* C15's case: an Add on a list with a parent has returned the Peer the
\* list indexed, without ever taking the write lock, while the other
\* goroutine has returned the same Peer from the Add that indexed it.
C15_Witness ==
    \E t1, t2 \in Threads :
        /\ Done(t1, "Add") /\ thr[t1].nlock = 0
        /\ parent[thr[t1].l] # 0
        /\ thr[t1].rpeer # NoPeer
        /\ Done(t2, "Add") /\ thr[t2].nlock > 0
        /\ thr[t2].l = thr[t1].l /\ thr[t2].hp = thr[t1].hp
        /\ thr[t2].rpeer = thr[t1].rpeer

\* ------------------------------------------------------------ Connect
\* How often connection c is in the sequence s.
Count(s, c) == Cardinality({i \in 1..Len(s) : s[i] = c})

\* C16: a Connect whose Connector gave a connection has handed it to
\* AddOutboundConnection; when that read it active or start-close, Connect
\* has returned the connection with no error, and the connection is once in
\* the outbound list of the peer and not in the inbound one; when that read
\* another state, Connect has returned nil and ErrInvalidConnectionState and
\* the connection is in neither list.
C16_ConnectRegisters ==
    \A t \in Threads :
        (Done(t, "Connect") /\ thr[t].c # 0) =>
            /\ thr[t].nconn = 1
            /\ thr[t].seen \in ConnStates
            /\ thr[t].seen \in {connectionActive, connectionStartClose} =>
                  /\ thr[t].rerr = ErrNone
                  /\ thr[t].rconn = thr[t].c
                  /\ thr[t].nadd = 1
                  /\ Count(outboundConnections[thr[t].p], thr[t].c) = 1
                  /\ Count(inboundConnections[thr[t].p], thr[t].c) = 0
            /\ thr[t].seen \notin {connectionActive, connectionStartClose} =>
                  /\ thr[t].rerr = ErrInvalidConnectionState
                  /\ thr[t].rconn = 0
                  /\ thr[t].nadd = 0
                  /\ thr[t].c \notin PoolOf(thr[t].p)

\* C16's case: one Connect has returned its connection, registered as
\* outbound; another was given a connection that had closed when it was
\* handed over, and has returned ErrInvalidConnectionState.
C16_Witness ==
    \E t1, t2 \in Threads :
        /\ Done(t1, "Connect") /\ thr[t1].rerr = ErrNone
        /\ thr[t1].rconn # 0
        /\ thr[t1].rconn \in Range(outboundConnections[thr[t1].p])
        /\ Done(t2, "Connect") /\ thr[t2].c # 0
        /\ thr[t2].rerr = ErrInvalidConnectionState

\* ------------------------------------------------------------ the index
\* The addresses the map of list l has a key for.
Keys(l) == {a \in Addrs : Indexed(l, a) # NoPeer}

\* C18: whenever no goroutine holds the write lock of a list, the slice of
\* the list holds no Peer twice, is as long as the map has keys, holds
\* exactly the values of the map, and every key of the map is the hostPort
\* of its value.
C18_IndexConsistency ==
    \A l \in Lists :
        lmut[l].w = 0 =>
            LET seq == peers[IndexOf(l)] IN
            /\ \A i, j \in 1..Len(seq) : seq[i] = seq[j] => i = j
            /\ Len(seq) = Cardinality(Keys(l))
            /\ Range(seq) = {Indexed(l, a) : a \in Keys(l)}
            /\ \A a \in Keys(l) : HostPort(Indexed(l, a)) = a

\* C18's case: two goroutines have both taken the write lock of a child list
\* to add the same address, both have returned, and the lock is free.
C18_Witness ==
    \E t1, t2 \in Threads :
        /\ t1 # t2
        /\ Done(t1, "Add") /\ Done(t2, "Add")
        /\ thr[t1].l = thr[t2].l /\ thr[t1].hp = thr[t2].hp
        /\ parent[thr[t1].l] # 0
        /\ thr[t1].nlock > 0 /\ thr[t2].nlock > 0
        /\ lmut[thr[t1].l].w = 0
        /\ Len(peers[IndexOf(thr[t1].l)]) = 1

\* ------------------------------------------------------------ growth
\* Sequence s is the beginning of sequence r.
IsPrefix(s, r) == Len(s) <= Len(r) /\ SubSeq(r, 1, Len(s)) = s

\* Goroutine t returns from the call of op in this step.
Returns(t, op) == thr[t].op = op /\ thr[t].pc # "done" /\ thr'[t].pc = "done"

\* C19: no step removes a list, changes the value the map of a list has for
\* an address it indexes, or removes or reorders anything in the slice of a
\* list or in a connection list of a peer.  So an Add or a GetOrAdd returns
\* the Peer its list indexes for the address, which is the one any earlier
\* call returned, and leaves the slice of the list non-empty; and a Get on a
\* list whose slice is non-empty does not return ErrNoPeers.
C19_RegistryOnlyGrows ==
    [][ /\ Len(parent') >= Len(parent)
        /\ \A l \in Lists :
              /\ \A a \in Keys(l) : peersByHostPort'[IndexOf(l)][a] = Indexed(l, a)
              /\ IsPrefix(peers[IndexOf(l)], peers'[IndexOf(l)])
        /\ \A p \in Peers :
              /\ p \in DOMAIN pmut'
              /\ IsPrefix(inboundConnections[p], inboundConnections'[p])
              /\ IsPrefix(outboundConnections[p], outboundConnections'[p])
        /\ \A t \in Threads :
              (Returns(t, "Add") \/ Returns(t, "GetOrAdd")) =>
                  /\ thr'[t].rpeer # NoPeer
                  /\ thr'[t].rpeer = peersByHostPort'[IndexOf(thr[t].l)][thr[t].hp]
                  /\ thr[t].hp \in Keys(thr[t].l) => thr'[t].rpeer = Indexed(thr[t].l, thr[t].hp)
                  /\ Len(peers'[IndexOf(thr[t].l)]) > 0
        /\ \A t \in Threads :
              (Returns(t, "Get") /\ Len(peers[IndexOf(thr[t].l)]) > 0) =>
                  thr'[t].rerr # ErrNoPeers
      ]_vars

\* C19's case: a GetOrAdd has returned, without taking a write lock, the
\* Peer an earlier call had added to the child list, a Get on that list has
\* returned it too, and the peer still has both its connections, on one of
\* which Close was called.
C19_Witness ==
    \E t1, t2 \in Threads :
        /\ Done(t1, "GetOrAdd") /\ thr[t1].nlock = 0
        /\ parent[thr[t1].l] # 0
        /\ Done(t2, "Get") /\ thr[t2].l = thr[t1].l
        /\ thr[t2].rerr = ErrNone /\ thr[t2].rpeer = thr[t1].rpeer
        /\ thr[t1].rpeer \in Peers
        /\ Len(runWithConnections(thr[t1].rpeer)) = 2
        /\ \E c \in PoolOf(thr[t1].rpeer) : closeCalled[c]

\* C20: the connection a GetConnection has returned with no error is in the
\* inbound or in the outbound list of the peer.
C20_ReturnedConnectionPooled ==
    \A t \in Threads :
        (Done(t, "GetConnection") /\ thr[t].rerr = ErrNone) =>
            /\ thr[t].rconn # 0
            /\ thr[t].rconn \in PoolOf(thr[t].p)

\* C20's case: one GetConnection has returned an inbound connection it
\* found active, the other the outbound connection it had Connect make.
C20_Witness ==
    \E t1, t2 \in Threads :
        /\ Done(t1, "GetConnection") /\ thr[t1].rerr = ErrNone
        /\ thr[t1].nconn = 0
        /\ thr[t1].rconn \in Range(inboundConnections[thr[t1].p])
        /\ Done(t2, "GetConnection") /\ thr[t2].rerr = ErrNone
        /\ thr[t2].nconn = 1
        /\ thr[t2].rconn \in Range(outboundConnections[thr[t2].p])

\* ------------------------------------------------------------ termination
\* C17: every call a goroutine has made returns in the end.
C17_EveryCallReturns ==
    \A t \in Threads : (thr[t].op # "idle") ~> (thr[t].pc = "done")

\* C17's case: one goroutine holds the write lock of the child list and
\* waits, inside the Add of the root list, for the write lock of the root,
\* whose read lock the other goroutine holds inside PeerList.Close.
C17_Witness ==
    \E t1, t2 \in Threads :
        /\ InDelegatedAdd(t1) /\ thr[t1].pc = "add_locked"
        /\ lmut[thr[t1].stack[1]].w = t1
        /\ ~CanLock(lmut[Top(t1)])
        /\ thr[t2].op = "ListClose" /\ t2 \in lmut[Top(t1)].r
====
